---------------------------- MODULE Spec2Model ----------------------------
(***************************************************************************)
(* The four-step project wizard of NexaBridge.  The repository holds four  *)
(* versions of the MultiStepForm component:                                *)
(*   "typewriter"  src/src/components/StepForm.jsx, lines 1-446            *)
(*                 (the one App.jsx mounts; simulated 1500 ms transport)   *)
(*   "delayed"     src/src/components/StepForm.jsx, lines 447-825          *)
(*                 (every step change runs in a 1000 ms setTimeout)        *)
(*   "alert"       src/unnamed/part_000 (alert() instead of a transport)   *)
(*   "axios"       src/src/components/MultiStepForm.jsx (Back buttons,     *)
(*                 axios.post, 5 MiB file-size schema, Start New Project)  *)
(* A behaviour fixes one version in its first state.  One step of the      *)
(* model is one browser task: a user event with its handler run up to its  *)
(* first macrotask boundary, a timer callback, or the settling of the      *)
(* transport promise.  React re-renders before the next user event, so an  *)
(* event reaches only the controls the current state renders and enables.  *)
(* The react-hook-form stores (field values, formState.errors,             *)
(* formState.isSubmitted) are part of the state.                           *)
(***************************************************************************)
EXTENDS Integers, Sequences, FiniteSets, TLC

(***************************************************************************)
(* Bounds of the model.                                                    *)
(***************************************************************************)
MaxPad == 1
MaxNameCore == 3
MaxDescCore == 10
MaxFiles == 2
MaxTimers == 2
MaxBlanks == 10
MaxTrail == 1
MaxTextLen == 2
MaxTextChanges == 1

(***************************************************************************)
(* Program constants.                                                      *)
(***************************************************************************)
MinProjectName == 3
MinAnalysisDescription == 10
MaxFileSize == 5 * 1024 * 1024

VTypewriter == "typewriter"
VDelayed == "delayed"
VAlert == "alert"
VAxios == "axios"
Variants == {VTypewriter, VDelayed, VAlert, VAxios}

\* JavaScript null / undefined
Null == "null"

ProjectNameRequired == "Project name is required"
ProjectNameTooShort == "Project name must be at least 3 characters"
DescriptionRequired == "Analysis description is required"
DescriptionTooShort == "Please provide more details (at least 10 characters)"
FileTooLarge == "File size is too large"
DefaultSubmitError == "An error occurred while submitting the form"
ServerMessage == "Server rejected the project"

(***************************************************************************)
(* Strings are sequences of characters.  The inputs typed into the fields  *)
(* are a run of blanks followed by a run of 'a'.                            *)
(***************************************************************************)
Rep(c, n) == [i \in 1..n |-> c]

Typed(l, n) == Rep(" ", l) \o Rep("a", n)

NameInputs == {Typed(l, n) : l \in 0..MaxPad, n \in 0..MaxNameCore}

DescCores == {0} \cup ((MinAnalysisDescription - 1)..MaxDescCore)

DescInputs == {Typed(l, n) : l \in 0..MaxPad, n \in DescCores}

FilePool == { [name |-> "small.csv", size |-> MaxFileSize],
              [name |-> "large.csv", size |-> MaxFileSize + 1] }

\* A selection: up to MaxFiles distinct files, in the order the picker gives them.
FileLists ==
  {fl \in UNION {[1..n -> FilePool] : n \in 0..MaxFiles} :
     \A i, j \in 1..Len(fl) : i # j => fl[i] # fl[j]}

VARIABLES
  variant,                  \* which version of the component is mounted
  step,                     \* useState(1)
  projectName,              \* useState('')
  analysisDescription,      \* useState('')
  files,                    \* useState([])  (uploadedFiles in MultiStepForm.jsx)
  isSubmitting,             \* useState(false)
  submitError,              \* useState(null)
  submitSuccess,            \* useState(false)
  showTyping,               \* useState(false), delayed version only
  fieldProjectName,         \* value of the input registered by registerStep1
  fieldAnalysisDescription, \* value of the input registered by registerStep2
  fieldFiles,               \* value of the input registered by registerStep3
  errorsStep1,              \* formState.errors.projectName?.message
  errorsStep2,              \* formState.errors.analysisDescription?.message
  errorsStep3,              \* formState.errors.files?.message
  isSubmitted,              \* formState.isSubmitted of the three forms
  timers,                   \* pending 1000 ms step timers (target step, control), in creation order
  pending,                  \* transport promises not yet settled
  toasts,                   \* messages handed to toast.error
  formData,                 \* the FormData the last submission built
  mounted,                  \* whether the Typewriter / TypingAnimation is mounted
  text,                     \* its text prop
  displayedText,            \* useState('')
  currentIndex,             \* useState(0)
  revealTimers,             \* its pending timeouts: the text and index each closure holds
  emitted,                  \* the non-empty texts displayed for the current text prop
  textChanges               \* how often the parent has passed another text

formVars == <<variant, step, projectName, analysisDescription, files,
              isSubmitting, submitError, submitSuccess, showTyping,
              fieldProjectName, fieldAnalysisDescription, fieldFiles,
              errorsStep1, errorsStep2, errorsStep3, isSubmitted, timers,
              pending, toasts, formData>>

revealVars == <<mounted, text, displayedText, currentIndex, revealTimers,
                emitted, textChanges>>

vars == <<formVars, revealVars>>

wizardVars == <<step, projectName, analysisDescription, files>>
statusVars == <<isSubmitting, submitError, submitSuccess>>
fieldVars == <<fieldProjectName, fieldAnalysisDescription, fieldFiles>>
errorVars == <<errorsStep1, errorsStep2, errorsStep3, isSubmitted>>

(***************************************************************************)
(* The yup schemas.  string().required(m1).min(k, m2) rejects the empty    *)
(* string with m1 and a string of fewer than k characters with m2; it does *)
(* not trim.                                                               *)
(***************************************************************************)
\* The schema with its two messages exchanged.
projectNameSchemaSwapped(s) ==
  IF Len(s) = 0 THEN ProjectNameTooShort
  ELSE IF Len(s) < MinProjectName THEN ProjectNameRequired
  ELSE Null

projectNameSchemaOffByOne(s) ==
  IF Len(s) = 0 THEN ProjectNameRequired
  ELSE IF Len(s) < MinProjectName - 1 THEN ProjectNameTooShort
  ELSE Null

projectNameSchema(s) ==
  IF Len(s) = 0 THEN ProjectNameRequired
  ELSE IF Len(s) < MinProjectName THEN ProjectNameTooShort
  ELSE Null

analysisDescriptionSchemaOffByOne(s) ==
  IF Len(s) = 0 THEN DescriptionRequired
  ELSE IF Len(s) < MinAnalysisDescription - 1 THEN DescriptionTooShort
  ELSE Null

analysisDescriptionSchema(s) ==
  IF Len(s) = 0 THEN DescriptionRequired
  ELSE IF Len(s) < MinAnalysisDescription THEN DescriptionTooShort
  ELSE Null

\* The test with file.size < 5 * 1024 * 1024.
fileUploadSchemaStrictlyBelow(value) ==
  IF Len(value) = 0 THEN Null
  ELSE IF \A i \in 1..Len(value) : value[i].size < MaxFileSize THEN Null
  ELSE FileTooLarge

fileUploadSchema(value) ==
  IF Len(value) = 0 THEN Null
  ELSE IF \A i \in 1..Len(value) : value[i].size <= MaxFileSize THEN Null
  ELSE FileTooLarge

\* A FormData without entries: the keys appended, and the values under them.
EmptyFormData ==
  [keys |-> {}, projectName |-> << >>, analysisDescription |-> << >>,
   files |-> << >>]

\* The reveal of the prompt texts is modelled in SpecReveal only; elsewhere the
\* component is held out of the tree.
RevealLeftOut ==
  /\ mounted = FALSE
  /\ text = << >>
  /\ displayedText = << >>
  /\ currentIndex = 0
  /\ revealTimers = {}
  /\ emitted = << >>
  /\ textChanges = 0

\* The component with useState(true) for isSubmitting.
InitFormSubmitting ==
  /\ variant \in Variants
  /\ step = 1
  /\ projectName = << >>
  /\ analysisDescription = << >>
  /\ files = << >>
  /\ isSubmitting = TRUE
  /\ submitError = Null
  /\ submitSuccess = FALSE
  /\ showTyping = FALSE
  /\ fieldProjectName = << >>
  /\ fieldAnalysisDescription = << >>
  /\ fieldFiles = << >>
  /\ errorsStep1 = Null
  /\ errorsStep2 = Null
  /\ errorsStep3 = Null
  /\ isSubmitted = [f \in 1..3 |-> FALSE]
  /\ timers = << >>
  /\ pending = 0
  /\ toasts = << >>
  /\ formData = EmptyFormData

\* The state of MultiStepForm on its first render.
InitForm ==
  /\ variant \in Variants
  /\ step = 1
  /\ projectName = << >>
  /\ analysisDescription = << >>
  /\ files = << >>
  /\ isSubmitting = FALSE
  /\ submitError = Null
  /\ submitSuccess = FALSE
  /\ showTyping = FALSE
  /\ fieldProjectName = << >>
  /\ fieldAnalysisDescription = << >>
  /\ fieldFiles = << >>
  /\ errorsStep1 = Null
  /\ errorsStep2 = Null
  /\ errorsStep3 = Null
  /\ isSubmitted = [f \in 1..3 |-> FALSE]
  /\ timers = << >>
  /\ pending = 0
  /\ toasts = << >>
  /\ formData = EmptyFormData

Init == InitForm /\ RevealLeftOut

\* The step forms rendered next to the success screen.
StepShownDespiteSuccess(n) == step = n

\* The step forms are rendered only while the success screen is not.
StepShown(n) == ~submitSuccess /\ step = n

(***************************************************************************)
(* Typing into the text inputs.  register() stores the value; once the     *)
(* form has been submitted, react-hook-form re-validates on every change   *)
(* (mode 'onSubmit', reValidateMode 'onChange', the defaults).             *)
(***************************************************************************)
changeProjectName(s) ==
  /\ StepShown(1)
  /\ fieldProjectName' = s
  /\ errorsStep1' = IF isSubmitted[1] THEN projectNameSchema(s) ELSE errorsStep1
  /\ UNCHANGED <<revealVars, variant, wizardVars, statusVars, showTyping,
                 fieldAnalysisDescription, fieldFiles, errorsStep2, errorsStep3,
                 isSubmitted, timers, pending, toasts, formData>>

changeAnalysisDescription(s) ==
  /\ StepShown(2)
  /\ fieldAnalysisDescription' = s
  /\ errorsStep2' = IF isSubmitted[2] THEN analysisDescriptionSchema(s) ELSE errorsStep2
  /\ UNCHANGED <<revealVars, variant, wizardVars, statusVars, showTyping, fieldProjectName,
                 fieldFiles, errorsStep1, errorsStep3, isSubmitted, timers,
                 pending, toasts, formData>>

(***************************************************************************)
(* A step change: setStep(n), or, in the delayed version, setShowTyping    *)
(* (true) and a 1000 ms timer whose callback runs setStep(n).              *)
(***************************************************************************)
\* Every version changes step in a 1000 ms timer.
goToStepByTimerAlways(n, control) ==
  /\ showTyping' = TRUE
  /\ timers' = Append(timers, [to |-> n, by |-> control])
  /\ step' = step

goToStepBy(n, control) ==
  IF variant = VDelayed
    THEN /\ showTyping' = TRUE
         /\ timers' = Append(timers, [to |-> n, by |-> control])
         /\ step' = step
    ELSE /\ step' = n
         /\ UNCHANGED <<showTyping, timers>>

goToStep(n) == goToStepBy(n, "submit")

\* A handler that starts a timer is cut off once MaxTimers are pending.
TimerRoom == variant = VDelayed => Len(timers) < MaxTimers

(***************************************************************************)
(* onStep1Submit(data): handleSubmit calls it only with data that passed   *)
(* the resolver; it validates again with triggerStep1().                   *)
(***************************************************************************)
onStep1SubmitNoStore(data) ==
  /\ projectName' = projectName
  /\ goToStep(2)
  /\ toasts' = toasts

onStep1Submit(data) ==
  LET isValid == projectNameSchema(fieldProjectName) = Null
  IN IF isValid
       THEN /\ projectName' = IF variant = VAxios THEN projectName ELSE data
            /\ goToStep(2)
            /\ toasts' = toasts
       ELSE /\ toasts' = IF variant = VAxios THEN toasts ELSE Append(toasts, errorsStep1)
            /\ UNCHANGED <<projectName, step, showTyping, timers>>

onStep2SubmitNoStore(data) ==
  /\ analysisDescription' = analysisDescription
  /\ goToStep(3)

onStep2Submit(data) ==
  LET isValid == analysisDescriptionSchema(fieldAnalysisDescription) = Null
  IN IF isValid
       THEN /\ analysisDescription' = IF variant = VAxios THEN analysisDescription ELSE data
            /\ goToStep(3)
       ELSE UNCHANGED <<analysisDescription, step, showTyping, timers>>

(***************************************************************************)
(* handleStep1(onStep1Submit) and handleStep2(onStep2Submit): the form's   *)
(* onSubmit.  handleSubmit runs the yup resolver over the field values,    *)
(* records the errors and isSubmitted, and calls the callback only when    *)
(* there are no errors.                                                    *)
(***************************************************************************)
\* useForm() without a resolver: handleSubmit and trigger() accept any value.
handleStep1NoResolver ==
  /\ StepShown(1)
  /\ TimerRoom
  /\ errorsStep1' = Null
  /\ isSubmitted' = [isSubmitted EXCEPT ![1] = TRUE]
  /\ projectName' = IF variant = VAxios THEN projectName ELSE fieldProjectName
  /\ goToStep(2)
  /\ UNCHANGED <<revealVars, variant, analysisDescription, files, statusVars, fieldVars,
                 errorsStep2, errorsStep3, pending, toasts, formData>>

handleStep1 ==
  /\ StepShown(1)
  /\ LET err == projectNameSchema(fieldProjectName)
     IN /\ err = Null => TimerRoom
        /\ errorsStep1' = err
        /\ isSubmitted' = [isSubmitted EXCEPT ![1] = TRUE]
        /\ IF err = Null
             THEN onStep1Submit(fieldProjectName)
             ELSE UNCHANGED <<projectName, step, showTyping, timers, toasts>>
  /\ UNCHANGED <<revealVars, variant, analysisDescription, files, statusVars, fieldVars,
                 errorsStep2, errorsStep3, pending,
                 formData>>

handleStep2 ==
  /\ StepShown(2)
  /\ LET err == analysisDescriptionSchema(fieldAnalysisDescription)
     IN /\ err = Null => TimerRoom
        /\ errorsStep2' = err
        /\ isSubmitted' = [isSubmitted EXCEPT ![2] = TRUE]
        /\ IF err = Null
             THEN onStep2Submit(fieldAnalysisDescription)
             ELSE UNCHANGED <<analysisDescription, step, showTyping, timers>>
  /\ UNCHANGED <<revealVars, variant, projectName, files, statusVars, fieldVars,
                 errorsStep1, errorsStep3, pending, toasts, formData>>

(***************************************************************************)
(* The file input.  handleFileChange stores Array.from(e.target.files).    *)
(* In MultiStepForm.jsx the spread of registerStep3('files') comes after   *)
(* onChange={handleFileChange} and replaces it: the selection reaches the  *)
(* form's field value and uploadedFiles is left alone.                     *)
(***************************************************************************)
\* The file input with both onChange handlers running in MultiStepForm.jsx.
handleFileChangeBothRun(fileList) ==
  /\ StepShown(3)
  /\ files' = fileList
  /\ IF variant = VAxios
       THEN /\ fieldFiles' = fileList
            /\ errorsStep3' = IF isSubmitted[3] THEN fileUploadSchema(fileList)
                                                ELSE errorsStep3
       ELSE UNCHANGED <<fieldFiles, errorsStep3>>
  /\ UNCHANGED <<revealVars, variant, step, projectName, analysisDescription, statusVars,
                 showTyping, fieldProjectName, fieldAnalysisDescription,
                 errorsStep1, errorsStep2, isSubmitted, timers, pending, toasts, formData>>

handleFileChange(fileList) ==
  /\ StepShown(3)
  /\ IF variant = VAxios
       THEN /\ fieldFiles' = fileList
            /\ errorsStep3' = IF isSubmitted[3] THEN fileUploadSchema(fileList)
                                                ELSE errorsStep3
            /\ files' = files
       ELSE /\ files' = fileList
            /\ UNCHANGED <<fieldFiles, errorsStep3>>
  /\ UNCHANGED <<revealVars, variant, step, projectName, analysisDescription, statusVars,
                 showTyping, fieldProjectName, fieldAnalysisDescription,
                 errorsStep1, errorsStep2, isSubmitted, timers, pending, toasts, formData>>

(***************************************************************************)
(* The buttons of step 3.  StepForm.jsx and part_000 render Next when      *)
(* files.length > 0 and SKIP otherwise; MultiStepForm.jsx always renders   *)
(* Back, SKIP and Done.                                                    *)
(***************************************************************************)
\* Next rendered whatever files holds.
NextButtonAlwaysShown == StepShown(3) /\ variant # VAxios

NextButtonShown == StepShown(3) /\ variant # VAxios /\ Len(files) > 0

SkipButtonShown == StepShown(3) /\ (variant = VAxios \/ ~(Len(files) > 0))

\* Next that also empties the selection.
clickNextClearsFiles ==
  /\ NextButtonShown
  /\ TimerRoom
  /\ goToStepBy(4, "next")
  /\ files' = << >>
  /\ UNCHANGED <<revealVars, variant, projectName, analysisDescription, statusVars,
                 fieldVars, errorVars, pending, toasts, formData>>

clickNext ==
  /\ NextButtonShown
  /\ TimerRoom
  /\ goToStepBy(4, "next")
  /\ UNCHANGED <<revealVars, variant, projectName, analysisDescription, files, statusVars,
                 fieldVars, errorVars, pending, toasts, formData>>

handleSkipFiles ==
  /\ SkipButtonShown
  /\ TimerRoom
  /\ goToStepBy(4, "skip")
  /\ UNCHANGED <<revealVars, variant, projectName, analysisDescription, files, statusVars,
                 fieldVars, errorVars, pending, toasts, formData>>

\* Back buttons that all run setStep(1).
clickBackToStart ==
  /\ variant = VAxios
  /\ ~submitSuccess
  /\ step \in 2..4
  /\ step' = 1
  /\ UNCHANGED <<revealVars, variant, projectName, analysisDescription, files, statusVars,
                 showTyping, fieldVars, errorVars, timers, pending, toasts, formData>>

\* The Back buttons of steps 2, 3 and 4 of MultiStepForm.jsx: setStep(step - 1).
clickBack ==
  /\ variant = VAxios
  /\ ~submitSuccess
  /\ step \in 2..4
  /\ step' = step - 1
  /\ UNCHANGED <<revealVars, variant, projectName, analysisDescription, files, statusVars,
                 showTyping, fieldVars, errorVars, timers, pending, toasts, formData>>

(***************************************************************************)
(* onSubmit (onStep3Submit in MultiStepForm.jsx) up to its first await.    *)
(* StepForm.jsx awaits a 1500 ms promise and MultiStepForm.jsx awaits      *)
(* axios.post; the alert() versions run to the end of the handler:         *)
(* setIsSubmitting(true), setSubmitError(null), setSubmitSuccess(true),    *)
(* setIsSubmitting(false) in one event.                                    *)
(***************************************************************************)
Awaits == variant \in {VTypewriter, VAxios}

\* const formData = new FormData() followed by the handler's append calls.
buildFormData ==
  IF variant = VAxios
    THEN [keys |-> IF Len(files) > 0 THEN {"files"} ELSE {},
          projectName |-> << >>,
          analysisDescription |-> << >>,
          files |-> files]
    ELSE [keys |-> {"projectName", "analysisDescription"}
                     \cup (IF Len(files) > 0 THEN {"files"} ELSE {}),
          projectName |-> projectName,
          analysisDescription |-> analysisDescription,
          files |-> files]

\* The handler without setSubmitError(null).
onSubmitKeepsError ==
  /\ formData' = buildFormData
  /\ submitError' = submitError
  /\ IF Awaits
       THEN /\ isSubmitting' = TRUE
            /\ pending' = pending + 1
            /\ submitSuccess' = submitSuccess
       ELSE /\ isSubmitting' = FALSE
            /\ submitSuccess' = TRUE
            /\ pending' = pending

onSubmit ==
  /\ formData' = buildFormData
  /\ submitError' = Null
  /\ IF Awaits
       THEN /\ isSubmitting' = TRUE
            /\ pending' = pending + 1
            /\ submitSuccess' = submitSuccess
       ELSE /\ isSubmitting' = FALSE
            /\ submitSuccess' = TRUE
            /\ pending' = pending

\* The submit button of step 4 (DONE / Submit Project), disabled={isSubmitting}.
SubmitButtonShownFromStep3 == ~submitSuccess /\ step >= 3

SubmitButtonShown == StepShown(4)

SubmitAlwaysDisabled == TRUE

SubmitNeverDisabled == FALSE

SubmitDisabled == isSubmitting

clickSubmit ==
  /\ SubmitButtonShown
  /\ ~SubmitDisabled
  /\ onSubmit
  /\ UNCHANGED <<revealVars, variant, wizardVars, showTyping, fieldVars, errorVars, timers,
                 toasts>>

(***************************************************************************)
(* The Done button of step 3 of MultiStepForm.jsx, type="submit" and       *)
(* disabled={isSubmitting}, in <form onSubmit={handleStep3(onStep3Submit)}>*)
(***************************************************************************)
DoneButtonShown == StepShown(3) /\ variant = VAxios

handleStep3 ==
  /\ DoneButtonShown
  /\ ~SubmitDisabled
  /\ LET err == fileUploadSchema(fieldFiles)
     IN /\ errorsStep3' = err
        /\ isSubmitted' = [isSubmitted EXCEPT ![3] = TRUE]
        /\ IF err = Null
             THEN onSubmit
             ELSE UNCHANGED <<statusVars, pending, formData>>
  /\ UNCHANGED <<revealVars, variant, wizardVars, showTyping, fieldVars, errorsStep1,
                 errorsStep2, timers, toasts>>

(***************************************************************************)
(* The continuation of onSubmit after its await.  The 1500 ms promise of   *)
(* StepForm.jsx only resolves; axios.post resolves or rejects.             *)
(***************************************************************************)
\* The continuation that also returns the wizard to step 1.
transportResolvesToStep1 ==
  /\ pending > 0
  /\ pending' = pending - 1
  /\ submitSuccess' = TRUE
  /\ isSubmitting' = FALSE
  /\ step' = 1
  /\ UNCHANGED <<revealVars, variant, projectName, analysisDescription, files, submitError,
                 showTyping, fieldVars, errorVars, timers, toasts, formData>>

\* The continuation without the finally block.
transportResolvesNoFinally ==
  /\ pending > 0
  /\ pending' = pending - 1
  /\ submitSuccess' = TRUE
  /\ UNCHANGED <<revealVars, variant, wizardVars, submitError, isSubmitting,
                 showTyping, fieldVars, errorVars, timers, toasts, formData>>

\* The continuation without setSubmitSuccess(true).
transportResolvesNoSuccess ==
  /\ pending > 0
  /\ pending' = pending - 1
  /\ isSubmitting' = FALSE
  /\ UNCHANGED <<revealVars, variant, wizardVars, submitError, submitSuccess, showTyping,
                 fieldVars, errorVars, timers, toasts, formData>>

transportResolves ==
  /\ pending > 0
  /\ pending' = pending - 1
  /\ submitSuccess' = TRUE
  /\ isSubmitting' = FALSE
  /\ UNCHANGED <<revealVars, variant, wizardVars, submitError, showTyping, fieldVars,
                 errorVars, timers, toasts, formData>>

\* error.response?.data?.message || 'An error occurred while submitting the form'
errorMessage(message) == IF message = Null THEN DefaultSubmitError ELSE message

\* The catch branch without the finally block.
transportRejectsNoFinally(message) ==
  /\ variant = VAxios
  /\ pending > 0
  /\ pending' = pending - 1
  /\ submitError' = errorMessage(message)
  /\ UNCHANGED <<revealVars, variant, wizardVars, isSubmitting, submitSuccess, showTyping,
                 fieldVars, errorVars, timers, toasts, formData>>

\* The awaited promise of StepForm.jsx may reject as well: its catch shows a toast.
transportRejectsAnyVersion(message) ==
  /\ pending > 0
  /\ pending' = pending - 1
  /\ isSubmitting' = FALSE
  /\ IF variant = VAxios
       THEN submitError' = errorMessage(message) /\ toasts' = toasts
       ELSE toasts' = Append(toasts, errorMessage(message)) /\ submitError' = submitError
  /\ UNCHANGED <<revealVars, variant, wizardVars, submitSuccess, showTyping, fieldVars,
                 errorVars, timers, formData>>

transportRejects(message) ==
  /\ variant = VAxios
  /\ pending > 0
  /\ pending' = pending - 1
  /\ submitError' = errorMessage(message)
  /\ isSubmitting' = FALSE
  /\ UNCHANGED <<revealVars, variant, wizardVars, submitSuccess, showTyping, fieldVars,
                 errorVars, timers, toasts, formData>>

\* Timer callbacks run in any order.
timerFiresAnyOrder ==
  \E i \in 1..Len(timers) :
    /\ step' = timers[i].to
    /\ showTyping' = FALSE
    /\ timers' = SubSeq(timers, 1, i - 1) \o SubSeq(timers, i + 1, Len(timers))
    /\ UNCHANGED <<revealVars, variant, projectName, analysisDescription, files, statusVars,
                   fieldVars, errorVars, pending, toasts, formData>>

\* Timer callbacks run newest first.
timerFiresNewestFirst ==
  /\ Len(timers) > 0
  /\ step' = timers[Len(timers)].to
  /\ showTyping' = FALSE
  /\ timers' = SubSeq(timers, 1, Len(timers) - 1)
  /\ UNCHANGED <<revealVars, variant, projectName, analysisDescription, files, statusVars,
                 fieldVars, errorVars, pending, toasts, formData>>

\* The callback of the oldest pending 1000 ms timer: setStep(n); setShowTyping(false).
timerFires ==
  /\ Len(timers) > 0
  /\ step' = Head(timers).to
  /\ showTyping' = FALSE
  /\ timers' = Tail(timers)
  /\ UNCHANGED <<revealVars, variant, projectName, analysisDescription, files, statusVars,
                 fieldVars, errorVars, pending, toasts, formData>>

\* Start New Project on the success screen of MultiStepForm.jsx.
startNewProject ==
  /\ variant = VAxios
  /\ submitSuccess
  /\ step' = 1
  /\ submitSuccess' = FALSE
  /\ files' = << >>
  /\ UNCHANGED <<revealVars, variant, projectName, analysisDescription, isSubmitting,
                 submitError, showTyping, fieldVars, errorVars, timers, pending,
                 toasts, formData>>

\* error.response?.data?.message of a rejected axios.post: absent, or a text.
TransportMessages == {Null, ServerMessage}

Next ==
  \/ \E s \in NameInputs : changeProjectName(s)
  \/ \E s \in DescInputs : changeAnalysisDescription(s)
  \/ handleStep1
  \/ handleStep2
  \/ \E fileList \in FileLists : handleFileChange(fileList)
  \/ clickNext
  \/ handleSkipFiles
  \/ clickBack
  \/ clickSubmit
  \/ handleStep3
  \/ transportResolves
  \/ \E message \in TransportMessages : transportRejects(message)
  \/ timerFires
  \/ startNewProject

Spec == Init /\ [][Next]_vars

(***************************************************************************)
(* The name and the description the component holds.  MultiStepForm.jsx    *)
(* has no projectName or analysisDescription state: the values live in the *)
(* react-hook-form stores of the step-1 and step-2 forms.                  *)
(***************************************************************************)
storedProjectName == IF variant = VAxios THEN fieldProjectName ELSE projectName

storedAnalysisDescription ==
  IF variant = VAxios THEN fieldAnalysisDescription ELSE analysisDescription

\* A step in which a submission starts: isSubmitting rises, or (the alert()
\* versions) the whole submission runs inside the click.
SubmissionStarts ==
  \/ ~isSubmitting /\ isSubmitting'
  \/ ~isSubmitting /\ ~submitSuccess /\ submitSuccess'

(***************************************************************************)
(* C1: at most one submission task is in flight at any time; while one is, *)
(* isSubmitting is set and the submit controls accept no further attempt.  *)
(***************************************************************************)
C1_AtMostOneInFlight ==
  /\ pending <= 1
  /\ isSubmitting <=> pending = 1
  /\ pending = 1 => ~ENABLED clickSubmit /\ ~ENABLED handleStep3

C1_Witness ==
  /\ variant = VAxios
  /\ pending = 1
  /\ DoneButtonShown
  /\ SubmitDisabled
  /\ fileUploadSchema(fieldFiles) = Null

(***************************************************************************)
(* C2 as stated: whenever a submission starts, step equals 4.              *)
(***************************************************************************)
C2_StartsOnlyAtStep4 == [][SubmissionStarts => step = 4]_vars

(***************************************************************************)
(* C2, amended: whenever a submission starts, step equals 4, or the        *)
(* version is MultiStepForm.jsx and step equals 3 (the Done submit of the  *)
(* step-3 form).                                                           *)
(***************************************************************************)
C2_StartsAtStep4OrDone ==
  [][SubmissionStarts => (step = 4 \/ (variant = VAxios /\ step = 3))]_vars

C2_Witness ==
  /\ variant = VAxios
  /\ step = 3
  /\ isSubmitting
  /\ isSubmitted[3]
  /\ errorsStep3 = Null

(***************************************************************************)
(* C3: in every reachable state with step >= 2 the stored project name is  *)
(* non-empty and has at least 3 characters.                                *)
(***************************************************************************)
C3_ProjectNameFromStep2 ==
  step >= 2 => /\ storedProjectName # << >>
               /\ Len(storedProjectName) >= MinProjectName

C3_Witness ==
  /\ variant = VDelayed
  /\ step = 4
  /\ Len(storedProjectName) = MinProjectName
  /\ fieldProjectName # projectName

(***************************************************************************)
(* C4: in every reachable state with step >= 3 the stored analysis         *)
(* description is non-empty and has at least 10 characters.                *)
(***************************************************************************)
C4_DescriptionFromStep3 ==
  step >= 3 => /\ storedAnalysisDescription # << >>
               /\ Len(storedAnalysisDescription) >= MinAnalysisDescription

C4_Witness ==
  /\ variant = VAxios
  /\ step = 3
  /\ Len(storedAnalysisDescription) = MinAnalysisDescription
  /\ isSubmitted[1] /\ isSubmitted[2] /\ isSubmitted[3]

\* A step-1 or step-2 form submit whose field value passes / fails its schema.
ValidStep1Submit == handleStep1 /\ projectNameSchema(fieldProjectName) = Null

ValidStep2Submit ==
  handleStep2 /\ analysisDescriptionSchema(fieldAnalysisDescription) = Null

InvalidStepSubmit ==
  \/ handleStep1 /\ projectNameSchema(fieldProjectName) # Null
  \/ handleStep2 /\ analysisDescriptionSchema(fieldAnalysisDescription) # Null

(***************************************************************************)
(* C5: in the versions that change step at once (StepForm.jsx 1-446,       *)
(* part_000, MultiStepForm.jsx), a step-1 submit with a name that passes   *)
(* validation stores exactly that name and sets step to 2.                 *)
(***************************************************************************)
C5_Step1SubmitStoresAndAdvances ==
  [][(ValidStep1Submit /\ variant # VDelayed)
       => (storedProjectName' = fieldProjectName /\ step' = 2)]_vars

C5_Witness ==
  /\ variant = VTypewriter
  /\ step = 2
  /\ projectName = fieldProjectName
  /\ projectName = Typed(1, MinProjectName - 1)

(***************************************************************************)
(* C6: in the versions that change step at once, a step-2 submit with a    *)
(* description that passes validation stores exactly that description and  *)
(* sets step to 3.                                                         *)
(***************************************************************************)
C6_Step2SubmitStoresAndAdvances ==
  [][(ValidStep2Submit /\ variant # VDelayed)
       => (storedAnalysisDescription' = fieldAnalysisDescription /\ step' = 3)]_vars

C6_Witness ==
  /\ variant = VAlert
  /\ step = 3
  /\ analysisDescription = fieldAnalysisDescription
  /\ analysisDescription = Typed(1, MinAnalysisDescription - 1)

(***************************************************************************)
(* C7: a step-1 or step-2 submit whose input fails validation leaves step, *)
(* the stored name and description, the selected files and the submission  *)
(* status unchanged, and starts no timer and no transport call.            *)
(***************************************************************************)
C7_InvalidSubmitChangesNothing ==
  [][InvalidStepSubmit
       => UNCHANGED <<step, projectName, analysisDescription, fieldProjectName,
                      fieldAnalysisDescription, files, fieldFiles, isSubmitting,
                      submitError, submitSuccess, timers, pending>>]_vars

C7_Witness ==
  /\ variant = VDelayed
  /\ step = 2
  /\ isSubmitted[2]
  /\ errorsStep2 = DescriptionTooShort
  /\ analysisDescription = << >>
  /\ timers = << >>

(***************************************************************************)
(* C8: every step-1 or step-2 submit whose input fails validation hands an *)
(* error message to the notification collaborator (toast.error).           *)
(***************************************************************************)
C8_InvalidSubmitNotifies ==
  [][InvalidStepSubmit => Len(toasts') > Len(toasts)]_vars

(***************************************************************************)
(* C9 as stated: when the transport fails, the failure is recorded and     *)
(* step is 4 afterwards.                                                   *)
(***************************************************************************)
C9_FailureLeavesStep4 ==
  [][(\E m \in TransportMessages : transportRejects(m))
       => (submitError' # Null /\ step' = 4)]_vars

(***************************************************************************)
(* C9, amended: when the transport fails, submitError becomes the          *)
(* transport's message, or the default text when it gives none,            *)
(* isSubmitting returns to false and step is left as it was (3 after a     *)
(* Done submit, or wherever Back has led meanwhile); the submit controls   *)
(* then accept a new attempt, which clears the error and goes in flight.   *)
(***************************************************************************)
C9_FailureIsRecordedAndRetryAllowed ==
  /\ [][\A m \in TransportMessages :
          transportRejects(m)
            => /\ submitError' = (IF m = Null THEN DefaultSubmitError ELSE m)
               /\ ~isSubmitting' /\ ~submitSuccess'
               /\ step' = step]_vars
  /\ [][(submitError # Null /\ (clickSubmit \/ (handleStep3 /\ errorsStep3' = Null)))
          => (isSubmitting' /\ submitError' = Null /\ pending' = 1)]_vars
  /\ [](submitError # Null
          => /\ ~isSubmitting /\ ~submitSuccess /\ pending = 0
             /\ step = 4 => ENABLED clickSubmit
             /\ step = 3 => ENABLED handleStep3)

C9_Witness ==
  /\ variant = VAxios
  /\ step = 4
  /\ submitError = ServerMessage
  /\ ~isSubmitting

(***************************************************************************)
(* The end-to-end run of C10: the user types a valid name and submits it,  *)
(* types a valid description and submits it, selects no file, presses      *)
(* SKIP and presses the submit button, each once the previous step change  *)
(* has taken place; the transport succeeds.  The user keeps going and the  *)
(* browser runs its timers and settles its promises: weak fairness of the  *)
(* run's steps.                                                            *)
(***************************************************************************)
e2eTypeName ==
  /\ fieldProjectName = << >>
  /\ \E s \in NameInputs : projectNameSchema(s) = Null /\ changeProjectName(s)

e2eSubmitStep1 == fieldProjectName # << >> /\ timers = << >> /\ handleStep1

e2eTypeDescription ==
  /\ fieldAnalysisDescription = << >>
  /\ \E s \in DescInputs :
        analysisDescriptionSchema(s) = Null /\ changeAnalysisDescription(s)

e2eSubmitStep2 ==
  fieldAnalysisDescription # << >> /\ timers = << >> /\ handleStep2

e2eSelectNoFiles == handleFileChange(<< >>)

e2eSkip == timers = << >> /\ handleSkipFiles

e2eSubmit == clickSubmit

NextE2E ==
  \/ e2eTypeName
  \/ e2eSubmitStep1
  \/ e2eTypeDescription
  \/ e2eSubmitStep2
  \/ e2eSelectNoFiles
  \/ e2eSkip
  \/ e2eSubmit
  \/ timerFires
  \/ transportResolves

SpecE2E == Init /\ [][NextE2E]_vars /\ WF_vars(NextE2E)

(***************************************************************************)
(* C10: in the end-to-end run step only ever changes by +1 (1, 2, 3, 4 in  *)
(* that order) and the run eventually shows submitSuccess at step 4.       *)
(***************************************************************************)
C10_EndToEndSucceeds ==
  /\ [][step' # step => step' = step + 1]_vars
  /\ <>(step = 2)
  /\ <>(step = 3)
  /\ <>(step = 4 /\ ~submitSuccess)
  /\ <>[](step = 4 /\ submitSuccess /\ ~isSubmitting /\ submitError = Null)

C10_Witness ==
  /\ variant = VTypewriter
  /\ step = 4
  /\ submitSuccess
  /\ ~isSubmitting
  /\ files = << >>
  /\ projectName = Typed(0, MinProjectName)
  /\ analysisDescription = Typed(0, MinAnalysisDescription)

(***************************************************************************)
(* C11 as stated: the FormData a submission builds holds the stored        *)
(* project name, the stored analysis description and exactly the selected  *)
(* files, in order.                                                        *)
(***************************************************************************)
expectedFormData ==
  [keys |-> {"projectName", "analysisDescription"}
              \cup (IF Len(files) > 0 THEN {"files"} ELSE {}),
   projectName |-> storedProjectName,
   analysisDescription |-> storedAnalysisDescription,
   files |-> files]

C11_PayloadHoldsNameDescriptionFiles ==
  [][SubmissionStarts => formData' = expectedFormData]_vars

(***************************************************************************)
(* A step in which SKIP moves the wizard from step 3 to step 4: the click  *)
(* itself, or, in the delayed version, the callback of the timer the click *)
(* started.                                                                *)
(***************************************************************************)
SkipTakesEffect ==
  /\ step = 3
  /\ step' = 4
  /\ \/ handleSkipFiles
     \/ timerFires /\ Head(timers).by = "skip"

(***************************************************************************)
(* C12 as stated: whenever step changes from 3 to 4 as the result of the   *)
(* skip action, the selected files are empty at that moment.               *)
(***************************************************************************)
C12_SkipOnlyWithoutFiles ==
  [][SkipTakesEffect => files = << >>]_vars

(***************************************************************************)
(* C13: the step-3 Next control acts only while the selected files are     *)
(* non-empty, and then sets step to 4 (in the delayed version: starts the  *)
(* timer that sets step to 4); with no files selected the control is not   *)
(* there, so an attempt changes no state.                                  *)
(***************************************************************************)
C13_NextOnlyWithFiles ==
  /\ [](files = << >> => ~ENABLED clickNext)
  /\ [][clickNext =>
          /\ Len(files) > 0
          /\ step = 3
          /\ IF variant = VDelayed
               THEN step' = step /\ timers' = Append(timers, [to |-> 4, by |-> "next"])
               ELSE step' = 4]_vars

C13_Witness ==
  /\ variant = VTypewriter
  /\ step = 4
  /\ Len(files) > 0

(***************************************************************************)
(* C14 as stated: after a selection in the file input the selected files   *)
(* equal the chosen list, whatever they were before.                       *)
(***************************************************************************)
C14_SelectionReplacesFiles ==
  [][\A fileList \in FileLists : handleFileChange(fileList) => files' = fileList]_vars

(***************************************************************************)
(* C15: a step that moves the wizard from step 3 to step 4, by SKIP or by  *)
(* Next, leaves the selected files, the project name and the analysis      *)
(* description unchanged.                                                  *)
(***************************************************************************)
C15_AdvanceFrom3KeepsData ==
  [][step = 3 /\ step' = 4 =>
       UNCHANGED <<files, projectName, analysisDescription, fieldVars>>]_vars

C15_Witness ==
  /\ variant = VAlert
  /\ step = 4
  /\ Len(files) = MaxFiles
  /\ projectName = Typed(0, MinProjectName)
  /\ ~submitSuccess

(***************************************************************************)
(* C16: once submitSuccess is set, no step other than Start New Project    *)
(* (no timer callback, no settling transport promise, no user event)       *)
(* changes step, the stored name and description, the selected files or    *)
(* the submission status.                                                  *)
(***************************************************************************)
C16_SucceededIsTerminal ==
  [][submitSuccess /\ ~startNewProject =>
       UNCHANGED <<step, projectName, analysisDescription, files, fieldVars,
                   statusVars>>]_vars

C16_Witness ==
  /\ variant = VDelayed
  /\ submitSuccess
  /\ Len(timers) > 0
  /\ ~showTyping

(***************************************************************************)
(* C17 as stated: Start New Project returns the wizard to its initial      *)
(* state: step 1, empty project name, empty analysis description, no       *)
(* selected files, no submission in flight, succeeded or failed.           *)
(***************************************************************************)
C17_ResetRestoresInitialState ==
  [][startNewProject =>
       /\ step' = 1
       /\ storedProjectName' = << >>
       /\ storedAnalysisDescription' = << >>
       /\ files' = << >>
       /\ ~isSubmitting'
       /\ ~submitSuccess'
       /\ submitError' = Null]_vars

(***************************************************************************)
(* C18: Back decrements step by exactly 1 when step is greater than 1, is  *)
(* not available at step 1, and leaves the project name, the analysis      *)
(* description and the selected files unchanged.                           *)
(***************************************************************************)
C18_BackDecrementsByOne ==
  /\ [](step = 1 => ~ENABLED clickBack)
  /\ [][clickBack =>
          /\ step > 1
          /\ step' = step - 1
          /\ UNCHANGED <<projectName, analysisDescription, files, fieldVars>>]_vars

C18_Witness ==
  /\ variant = VAxios
  /\ step = 1
  /\ pending = 1
  /\ fieldProjectName = Typed(0, MinProjectName)

(***************************************************************************)
(* The events of the user: typing, selecting files, the buttons.           *)
(***************************************************************************)
UserEvent ==
  \/ \E s \in NameInputs : changeProjectName(s)
  \/ \E s \in DescInputs : changeAnalysisDescription(s)
  \/ handleStep1
  \/ handleStep2
  \/ \E fileList \in FileLists : handleFileChange(fileList)
  \/ clickNext
  \/ handleSkipFiles
  \/ clickBack
  \/ clickSubmit
  \/ handleStep3
  \/ startNewProject

(***************************************************************************)
(* C19: in every reachable state, after a validation failure or a          *)
(* submission failure too, step is 1, 2, 3 or 4, and unless submitSuccess  *)
(* is set the wizard can still move: some step changes the state, and      *)
(* whenever no submission is in flight some event of the user does.        *)
(***************************************************************************)
C19_StepInRangeAndNeverStuck ==
  /\ step \in 1..4
  /\ ~submitSuccess => ENABLED <<Next>>_vars
  /\ ~submitSuccess /\ ~isSubmitting => ENABLED <<UserEvent>>_vars

C19_Witness ==
  /\ variant = VAxios
  /\ step = 4
  /\ submitError = DefaultSubmitError
  /\ ~isSubmitting
  /\ errorsStep3 = FileTooLarge
  /\ ENABLED clickSubmit

(***************************************************************************)
(* C20: in the versions without Back (StepForm.jsx, both versions, and     *)
(* part_000) step never decreases, and every change of step is +1.         *)
(***************************************************************************)
C20_StepOnlyIncrementsWithoutBack ==
  [][variant # VAxios => step' = step \/ step' = step + 1]_vars

C20_Witness ==
  /\ variant = VDelayed
  /\ step = 2
  /\ Len(timers) > 0
  /\ Head(timers).to = 2

(***************************************************************************)
(* The validation of the three forms on its own.  A behaviour starts with  *)
(* the wizard at one of the steps 1, 2, 3, the earlier steps passed with   *)
(* the shortest valid entries and the field of the step filled with one    *)
(* text (or one selection) of a family richer than the one Spec types:     *)
(* blanks before and after a run of 'a'.  The step is the submit of the    *)
(* form of that step, which runs the yup resolver of the form.             *)
(***************************************************************************)
Padded(l, n, t) == Rep(" ", l) \o Rep("a", n) \o Rep(" ", t)

ValidatedNames ==
  {Padded(l, n, t) : l \in 0..MaxBlanks, n \in 0..MaxNameCore, t \in 0..MaxTrail}

ValidatedDescriptions ==
  {Padded(l, n, t) : l \in 0..MaxBlanks, n \in 0..MaxDescCore, t \in 0..MaxTrail}

InitValidate ==
  /\ variant \in Variants
  /\ step \in 1..3
  /\ step = 3 => variant = VAxios
  /\ fieldProjectName \in
       IF step = 1 THEN ValidatedNames ELSE {Typed(0, MinProjectName)}
  /\ fieldAnalysisDescription \in
       IF step = 1 THEN {<< >>}
       ELSE IF step = 2 THEN ValidatedDescriptions
       ELSE {Typed(0, MinAnalysisDescription)}
  /\ fieldFiles \in IF step = 3 THEN FileLists ELSE {<< >>}
  /\ projectName = IF step > 1 /\ variant # VAxios THEN fieldProjectName ELSE << >>
  /\ analysisDescription = << >>
  /\ files = << >>
  /\ isSubmitting = FALSE
  /\ submitError = Null
  /\ submitSuccess = FALSE
  /\ showTyping = FALSE
  /\ errorsStep1 = Null
  /\ errorsStep2 = Null
  /\ errorsStep3 = Null
  /\ isSubmitted = [f \in 1..3 |-> f < step]
  /\ timers = << >>
  /\ pending = 0
  /\ toasts = << >>
  /\ formData = EmptyFormData
  /\ RevealLeftOut

NextValidate ==
  \/ ~isSubmitted[1] /\ handleStep1
  \/ ~isSubmitted[2] /\ handleStep2
  \/ ~isSubmitted[3] /\ handleStep3

SpecValidate == InitValidate /\ [][NextValidate]_vars

\* s without its leading and trailing blanks (String.prototype.trim).
RECURSIVE TrimStart(_)
TrimStart(s) ==
  IF s # << >> /\ Head(s) = " " THEN TrimStart(Tail(s)) ELSE s

RECURSIVE TrimEnd(_)
TrimEnd(s) ==
  IF s # << >> /\ s[Len(s)] = " " THEN TrimEnd(SubSeq(s, 1, Len(s) - 1)) ELSE s

Trim(s) == TrimEnd(TrimStart(s))

(***************************************************************************)
(* C21 as stated: the step-1 validation passes exactly when the project    *)
(* name, with its leading and trailing blanks removed, has 3 characters or *)
(* more; a name of blanks only never passes.                               *)
(***************************************************************************)
C21_Step1ValidIffTrimmedAtLeast3 ==
  [][handleStep1 =>
       ((errorsStep1' = Null) <=> Len(Trim(fieldProjectName)) >= MinProjectName)]_vars

(***************************************************************************)
(* C22 as stated: the step-2 validation passes exactly when the analysis   *)
(* description, with its leading and trailing blanks removed, has 10       *)
(* characters or more.                                                     *)
(***************************************************************************)
C22_Step2ValidIffTrimmedAtLeast10 ==
  [][handleStep2 =>
       ((errorsStep2' = Null) <=>
          Len(Trim(fieldAnalysisDescription)) >= MinAnalysisDescription)]_vars

(***************************************************************************)
(* C23: a failed validation of step 1 or step 2 carries the 'required'     *)
(* message exactly when the field is empty and the 'too short' message     *)
(* exactly when the field is non-empty and shorter than the minimum.       *)
(***************************************************************************)
C23_RequiredWhenEmptyTooShortOtherwise ==
  [][/\ handleStep1 =>
          /\ errorsStep1' = ProjectNameRequired <=> fieldProjectName = << >>
          /\ errorsStep1' = ProjectNameTooShort <=>
               fieldProjectName # << >> /\ Len(fieldProjectName) < MinProjectName
     /\ handleStep2 =>
          /\ errorsStep2' = DescriptionRequired <=> fieldAnalysisDescription = << >>
          /\ errorsStep2' = DescriptionTooShort <=>
               /\ fieldAnalysisDescription # << >>
               /\ Len(fieldAnalysisDescription) < MinAnalysisDescription]_vars

C23_Witness ==
  /\ isSubmitted[1]
  /\ step = 1
  /\ errorsStep1 = ProjectNameTooShort
  /\ fieldProjectName = Rep(" ", MinProjectName - 1)

(***************************************************************************)
(* C24: in the version with the file-size schema the step-3 validation     *)
(* passes exactly when every selected file has at most 5 * 1024 * 1024     *)
(* bytes (no file at all passes, a file of exactly that size passes), and  *)
(* otherwise fails with 'File size is too large'.                          *)
(***************************************************************************)
C24_FilesValidIffAllWithinCap ==
  [][handleStep3 =>
       errorsStep3' =
         IF \A i \in 1..Len(fieldFiles) : fieldFiles[i].size <= MaxFileSize
           THEN Null
           ELSE FileTooLarge]_vars

C24_Witness ==
  /\ variant = VAxios
  /\ isSubmitted[3]
  /\ errorsStep3 = Null
  /\ Len(fieldFiles) = 1
  /\ fieldFiles[1].size = MaxFileSize
  /\ isSubmitting

(***************************************************************************)
(* C25 as stated: in the version with the file-size schema, a selection    *)
(* holding a file above 5 MiB is rejected as a whole: the selected files   *)
(* stay as they were and the field error is shown.                         *)
(***************************************************************************)
C25_OversizeSelectionRejected ==
  [][\A fileList \in FileLists :
       variant = VAxios /\ handleFileChange(fileList)
         /\ fileUploadSchema(fileList) # Null
       => files' = files /\ errorsStep3' = FileTooLarge]_vars

(***************************************************************************)
(* The text reveal: Typewriter (StepForm.jsx 11-40, in the "typewriter"    *)
(* version) and TypingAnimation (StepForm.jsx 455-477, in the "delayed"    *)
(* version).  One instance of the component is followed; its parent may    *)
(* pass another text or unmount it.  A step runs React until nothing is    *)
(* left to do: a timeout callback or a change of props, the render it      *)
(* causes, the effects of that render and the render their state updates   *)
(* cause.  A pending timeout is the pair of text and currentIndex its      *)
(* closure holds.                                                          *)
(***************************************************************************)
RevealChars == {"h", "i"}

RevealTexts == UNION {[1..n -> RevealChars] : n \in 0..MaxTextLen}

\* text[currentIndex] in JavaScript: undefined beyond the end of the string.
charAt(txt, i) == IF i + 1 \in DOMAIN txt THEN txt[i + 1] ELSE "undefined"

\* The tick effect re-run only when text changes (currentIndex not a dependency).
scheduleTickOnce(txt, i) ==
  IF i = 0 /\ txt # << >> THEN {[text |-> txt, index |-> i]} ELSE {}

\* The body of the tick effect for the rendered text and currentIndex:
\* Typewriter sets a timeout if (text), TypingAnimation if
\* (currentIndex < text.length).
scheduleTick(txt, i) ==
  IF variant = VTypewriter
    THEN IF txt # << >> THEN {[text |-> txt, index |-> i]} ELSE {}
    ELSE IF i < Len(txt) THEN {[text |-> txt, index |-> i]} ELSE {}

\* A tick effect that returns no cleanup.
clearNothing(pendingTimeouts, txt, i) == pendingTimeouts

\* The cleanup of the tick effect that ran for txt and i: clearTimeout(timeout).
clearTimeout(pendingTimeouts, txt, i) ==
  pendingTimeouts \ {[text |-> txt, index |-> i]}

\* A reset effect that leaves the state as it is.
resetKeepsState == [displayedText |-> displayedText, currentIndex |-> currentIndex]

\* The reset effect: setDisplayedText(''); setCurrentIndex(0).
resetEffect == [displayedText |-> << >>, currentIndex |-> 0]

\* Whether the callback of a timeout updates the state: Typewriter tests
\* currentIndex < text.length inside the callback.
tickUpdates(tm) == variant = VTypewriter => tm.index < Len(tm.text)

\* The callback of a pending timeout, and what follows from it.
revealTick ==
  \E tm \in revealTimers :
    /\ IF mounted /\ tickUpdates(tm)
         THEN /\ displayedText' = Append(displayedText, charAt(tm.text, tm.index))
              /\ currentIndex' = currentIndex + 1
              /\ emitted' = Append(emitted, displayedText')
              /\ revealTimers' =
                   clearTimeout(revealTimers \ {tm}, text, currentIndex)
                     \cup scheduleTick(text, currentIndex')
         ELSE /\ revealTimers' = revealTimers \ {tm}
              /\ UNCHANGED <<displayedText, currentIndex, emitted>>
    /\ UNCHANGED <<formVars, mounted, text, textChanges>>

\* The parent renders the component with another text.
changeText(t) ==
  /\ mounted
  /\ t # text
  /\ textChanges < MaxTextChanges
  /\ textChanges' = textChanges + 1
  /\ text' = t
  /\ displayedText' = resetEffect.displayedText
  /\ currentIndex' = resetEffect.currentIndex
  /\ emitted' = << >>
  /\ LET first == clearTimeout(revealTimers, text, currentIndex)
                    \cup scheduleTick(t, currentIndex)
     IN revealTimers' =
          IF currentIndex' # currentIndex \/ displayedText' # displayedText
            THEN clearTimeout(first, t, currentIndex) \cup scheduleTick(t, currentIndex')
            ELSE first
  /\ UNCHANGED <<formVars, mounted>>

\* The parent stops rendering the component (its step is left).
unmount ==
  /\ mounted
  /\ mounted' = FALSE
  /\ revealTimers' = clearTimeout(revealTimers, text, currentIndex)
  /\ UNCHANGED <<formVars, text, displayedText, currentIndex, emitted, textChanges>>

\* The component just mounted with one of the texts, next to the wizard at
\* step 1: on the first render for Typewriter, after a valid step-1 submit
\* (showTyping) for TypingAnimation.
InitReveal ==
  /\ variant \in {VTypewriter, VDelayed}
  /\ step = 1
  /\ fieldProjectName = IF variant = VDelayed THEN Typed(0, MinProjectName) ELSE << >>
  /\ projectName = fieldProjectName
  /\ analysisDescription = << >>
  /\ files = << >>
  /\ isSubmitting = FALSE
  /\ submitError = Null
  /\ submitSuccess = FALSE
  /\ showTyping = (variant = VDelayed)
  /\ fieldAnalysisDescription = << >>
  /\ fieldFiles = << >>
  /\ errorsStep1 = Null
  /\ errorsStep2 = Null
  /\ errorsStep3 = Null
  /\ isSubmitted = [f \in 1..3 |-> f = 1 /\ variant = VDelayed]
  /\ timers = IF variant = VDelayed THEN <<[to |-> 2, by |-> "submit"]>> ELSE << >>
  /\ pending = 0
  /\ toasts = << >>
  /\ formData = EmptyFormData
  /\ mounted = TRUE
  /\ text \in RevealTexts
  /\ displayedText = << >>
  /\ currentIndex = 0
  /\ revealTimers = scheduleTick(text, 0)
  /\ emitted = << >>
  /\ textChanges = 0

NextReveal ==
  \/ revealTick
  \/ \E t \in RevealTexts : changeText(t)
  \/ unmount

SpecReveal == InitReveal /\ [][NextReveal]_vars /\ WF_vars(revealTick)

\* The first n characters of txt.
Prefix(txt, n) == SubSeq(txt, 1, IF n <= Len(txt) THEN n ELSE Len(txt))

\* The prefixes of txt of length 1, 2, ..., n, in that order.
Prefixes(txt, n) == [k \in 1..n |-> Prefix(txt, k)]

(***************************************************************************)
(* C26: for a text s the reveal displays exactly the prefixes of s of      *)
(* length 1, 2, ..., |s|, in that order and each once; it ends with s      *)
(* displayed, and from then on displays nothing more and no pending        *)
(* timeout updates the state.  For "hi" the texts are "h", "hi".           *)
(***************************************************************************)
C26_EmitsThePrefixesInOrder ==
  /\ [](/\ currentIndex <= Len(text)
        /\ emitted = Prefixes(text, currentIndex)
        /\ displayedText = Prefix(text, currentIndex))
  /\ [][displayedText = text => displayedText' = displayedText \/ text' # text]_vars
  /\ <>[](mounted =>
            /\ emitted = Prefixes(text, Len(text))
            /\ \A tm \in revealTimers : ~tickUpdates(tm) /\ variant = VTypewriter)

C26_Witness ==
  /\ text = <<"h", "i">>
  /\ emitted = << <<"h">>, <<"h", "i">> >>
  /\ displayedText = <<"h", "i">>
  /\ mounted
  /\ textChanges = 0

C28_AtMostOneCurrentTimeout ==
  /\ Cardinality(revealTimers) <= 1
  /\ \A tm \in revealTimers :
       mounted /\ tm.text = text /\ tm.index = currentIndex

C28_Witness ==
  /\ ~mounted
  /\ revealTimers = {}
  /\ Len(text) = MaxTextLen
  /\ currentIndex = 1
  /\ textChanges = 1

(***************************************************************************)
(* The reveal next to the wizard.  The wizard runs the scripted session of *)
(* SpecE2E, with or without files; the version that renders Typewriter     *)
(* starts with one mounted, and the parent mounts and unmounts the         *)
(* component while it renders it: Typewriter in every step form of the     *)
(* "typewriter" version, TypingAnimation while showTyping is set in the    *)
(* "delayed" version.                                                      *)
(***************************************************************************)
RevealRendered ==
  \/ variant = VTypewriter /\ ~submitSuccess
  \/ variant = VDelayed /\ showTyping

mount(t) ==
  /\ ~mounted
  /\ RevealRendered
  /\ mounted' = TRUE
  /\ text' = t
  /\ displayedText' = << >>
  /\ currentIndex' = 0
  /\ revealTimers' = revealTimers \cup scheduleTick(t, 0)
  /\ emitted' = << >>
  /\ UNCHANGED <<formVars, textChanges>>

InitCosmetic ==
  /\ InitForm
  /\ mounted = (variant = VTypewriter)
  /\ text \in IF mounted THEN RevealTexts ELSE {<< >>}
  /\ displayedText = << >>
  /\ currentIndex = 0
  /\ revealTimers = IF mounted THEN scheduleTick(text, 0) ELSE {}
  /\ emitted = << >>
  /\ textChanges = 0

NextCosmetic ==
  \/ NextE2E
  \/ \E fileList \in FileLists : handleFileChange(fileList)
  \/ clickNext
  \/ revealTick
  \/ \E t \in RevealTexts : mount(t)
  \/ unmount

SpecCosmetic == InitCosmetic /\ [][NextCosmetic]_vars

\* A valid step-1 or step-2 submit, SKIP, or Next.
ForwardAction ==
  \/ ValidStep1Submit
  \/ ValidStep2Submit
  \/ handleSkipFiles
  \/ clickNext

(***************************************************************************)
(* C29 as stated: the ticks of the reveal never modify the wizard's state, *)
(* and a valid step submit, SKIP or Next changes step in the same event,   *)
(* without an animation delay.                                             *)
(***************************************************************************)
C29_NoAnimationDelay ==
  /\ [][revealTick => UNCHANGED formVars]_vars
  /\ [][ForwardAction => step' = step + 1]_vars

(***************************************************************************)
(* C29, amended: the ticks of the reveal never modify the wizard's state,  *)
(* and no forward action or timer waits for the reveal to finish.  In the  *)
(* versions other than the delayed one a valid step submit, SKIP or Next   *)
(* changes step in the same event; in the delayed version it sets          *)
(* showTyping and starts the 1000 ms timer that changes step, whatever the *)
(* progress of the reveal.                                                 *)
(***************************************************************************)
C29_RevealIsCosmetic ==
  /\ [][revealTick => UNCHANGED formVars]_vars
  /\ [][ForwardAction =>
          IF variant = VDelayed
            THEN step' = step /\ showTyping' /\ Len(timers') = Len(timers) + 1
            ELSE step' = step + 1]_vars
  /\ [](timers # << >> => ENABLED timerFires)

C29_Witness ==
  /\ variant = VDelayed
  /\ step = 2
  /\ mounted
  /\ Len(text) = MaxTextLen
  /\ currentIndex = 1
  /\ revealTimers # {}
  /\ timers = << >>

(***************************************************************************)
(* C30: a fresh session starts at step 1 with the project name and the     *)
(* analysis description empty, no selected files, and not submitting, no   *)
(* error, no success; and the wizard stays so for as long as nothing has   *)
(* been typed into or submitted from the step-1 form.                      *)
(***************************************************************************)
InitialWizardState ==
  /\ step = 1
  /\ storedProjectName = << >>
  /\ storedAnalysisDescription = << >>
  /\ files = << >>
  /\ ~isSubmitting
  /\ submitError = Null
  /\ ~submitSuccess

C30_FreshSessionIsInitial ==
  /\ InitialWizardState
  /\ [](~isSubmitted[1] /\ fieldProjectName = << >> => InitialWizardState)

C30_Witness ==
  /\ variant = VAxios
  /\ InitialWizardState
  /\ isSubmitted = [f \in 1..3 |-> FALSE]
  /\ fieldFiles = << >>
  /\ pending = 0
  /\ timers = << >>
  /\ formData = EmptyFormData

(***************************************************************************)
(* C31: in every reachable state at most one of isSubmitting,              *)
(* submitSuccess and a non-null submitError is set, so the submission      *)
(* status is exactly one of Idle, InFlight, Succeeded, Failed(reason).     *)
(***************************************************************************)
C31_StatusFlagsExclusive ==
  /\ ~(isSubmitting /\ submitSuccess)
  /\ ~(isSubmitting /\ submitError # Null)
  /\ ~(submitSuccess /\ submitError # Null)
  /\ submitError \in {Null, DefaultSubmitError, ServerMessage}

C31_Witness ==
  /\ variant = VAxios
  /\ submitError = ServerMessage
  /\ ~isSubmitting
  /\ ~submitSuccess
  /\ step = 4

(***************************************************************************)
(* The wizard with a transport promise that settles: the 1500 ms promise   *)
(* resolves, the axios.post resolves or rejects.                           *)
(***************************************************************************)
transportSettles ==
  \/ transportResolves
  \/ \E message \in TransportMessages : transportRejects(message)

SpecSettles == Spec /\ WF_vars(transportSettles)

(***************************************************************************)
(* C32: every submission in flight eventually leaves that state: whether   *)
(* the transport resolves or rejects, isSubmitting is set back to false,   *)
(* and the submit control is no longer disabled.                           *)
(***************************************************************************)
C32_InFlightEventuallyEnds ==
  isSubmitting ~> (~isSubmitting /\ ~SubmitDisabled /\ pending = 0)

C32_Witness ==
  /\ variant = VAxios
  /\ submitError = DefaultSubmitError
  /\ ~isSubmitting
  /\ pending = 0
  /\ formData = EmptyFormData
  /\ step = 3

\* The file is larger than the 5 MiB cap of fileUploadSchema.
Oversized(file) == file.size > MaxFileSize

(***************************************************************************)
(* C33: in the version with the file-size schema, no file larger than      *)
(* 5 MiB is among the files of a FormData handed to axios.post, whether    *)
(* the submission started from Done at step 3 or from Submit Project at    *)
(* step 4 after SKIP.                                                      *)
(***************************************************************************)
C33_NoOversizedFileInPayload ==
  variant = VAxios =>
    \A i \in 1..Len(formData.files) : ~Oversized(formData.files[i])

\* Submit Project after SKIP, with an oversized file chosen in the file input.
C33_Witness ==
  /\ variant = VAxios
  /\ step = 4
  /\ isSubmitting
  /\ pending > 0
  /\ ~isSubmitted[3]
  /\ \E i \in 1..Len(fieldFiles) : Oversized(fieldFiles[i])
  /\ \A i \in 1..Len(formData.files) : ~Oversized(formData.files[i])

(***************************************************************************)
(* C34: in the delayed version, whatever submits and clicks happen while   *)
(* timers are pending, step never decreases, the callback of a timer       *)
(* raises step by at most 1, and every pending timer targets step or       *)
(* step + 1.                                                               *)
(***************************************************************************)
C34_DelayedTimersKeepStepMonotone ==
  [][variant = VDelayed =>
       /\ step' >= step
       /\ timerFires => step' - step \in {0, 1}
       /\ \A i \in 1..Len(timers') : timers'[i].to \in {step', step' + 1}]_vars

\* SKIP clicked twice within the delay: the first callback has run, the second is pending.
C34_Witness ==
  /\ variant = VDelayed
  /\ step = 4
  /\ Len(timers) = 1
  /\ Head(timers).to = 4
  /\ Head(timers).by = "skip"

(***************************************************************************)
(* C35: in the versions with a simulated transport (the 1500 ms promise of *)
(* StepForm.jsx, the alert() of its second version and of part_000) every  *)
(* submission started at step 4 ends with submitSuccess set, and the catch *)
(* branch never runs: no error toast is shown and submitError stays null.  *)
(***************************************************************************)
C35_SimulatedSubmitAlwaysSucceeds ==
  /\ [][variant # VAxios /\ clickSubmit
          => step = 4 /\ (submitSuccess' \/ (isSubmitting' /\ pending' > 0))]_vars
  /\ (variant # VAxios /\ isSubmitting) ~> (submitSuccess /\ ~isSubmitting)
  /\ [](variant # VAxios => toasts = << >> /\ submitError = Null)

\* The alert() version of part_000 after Submit, with files chosen.
C35_Witness ==
  /\ variant = VAlert
  /\ step = 4
  /\ submitSuccess
  /\ ~isSubmitting
  /\ "files" \in formData.keys
  /\ toasts = << >>

\* A step in which the awaited promise of a submission settles.
SubmissionCompletes == pending' < pending

(***************************************************************************)
(* C36: the start of a submission and its completion, on success and on    *)
(* failure, change the status flags only: step, projectName,               *)
(* analysisDescription and the selected files are left as they were, and   *)
(* so are the field values and the pending step timers.                    *)
(***************************************************************************)
C36_SubmitLeavesWizardDataAlone ==
  [][SubmissionStarts \/ SubmissionCompletes
       => UNCHANGED <<step, projectName, analysisDescription, files,
                      fieldVars, showTyping, timers>>]_vars

\* Done at step 3 of MultiStepForm.jsx answered with an error of the server.
C36_Witness ==
  /\ variant = VAxios
  /\ step = 3
  /\ isSubmitted[3]
  /\ submitError = ServerMessage
  /\ ~isSubmitting
  /\ storedProjectName # << >>
  /\ storedAnalysisDescription # << >>

=============================================================================
